---- MODULE Spec2Model ----
(***************************************************************************)
(* File Dates plugin (src/main.js): the overlay controller                 *)
(* FileDatesPlugin.updateActiveDates, the plugin life cycle onload /       *)
(* onunload, and the five change handlers of FileDatesSettingTab.display.  *)
(*                                                                         *)
(* The host (workspace, vault, DOM, storage, moment, CSSOM) is the         *)
(* environment: its state is part of the model and its steps are the Host* *)
(* actions.  Timestamps are held at day resolution (days since the epoch). *)
(***************************************************************************)
EXTENDS Integers, Sequences, FiniteSets, TLC

(* ------------------------------------------------------------------ *)
(* Bounds of the exploration                                          *)
(* ------------------------------------------------------------------ *)
\* number of inputs from outside (settings edits, events, host steps) in a run
MaxSteps == 2

None == "none"

Views == {"v1", "v2"}
Leaves == {"leaf1", "leaf2", "leaf3"}
Files == {"a.md", "b.md"}

\* leaf.view (line 62): leaf3 is a leaf whose view is not set
LeafView(l) == IF l = "leaf1" THEN "v1" ELSE IF l = "leaf2" THEN "v2" ELSE None

\* file.stat values the host can report, in days since 1970-01-01
Times == {19675, 19676, 19787}

FontSizes == {"12px", "14PX", "14"}
DateFormats == {"MM-DD-YYYY", "D/M/YY"}

FieldNames == {"fontSize", "italic", "showCreated", "showModified", "dateFormat"}

\* the class field initialiser of FileDatesPlugin.settings
DefaultSettings ==
    [fontSize |-> "12px", italic |-> TRUE, showCreated |-> TRUE,
     showModified |-> TRUE, dateFormat |-> "MM-DD-YYYY"]

(* ------------------------------------------------------------------ *)
(* moment(timestamp).format(pattern)                                  *)
(* ------------------------------------------------------------------ *)
\* civil date of a day number (proleptic Gregorian calendar): the year of
\* the era from the day of the era, the day and month from the day of the
\* year counted from 1 March
YearOfEra(doe) == (doe - (doe \div 1460) + (doe \div 36524) - (doe \div 146096)) \div 365

DayOfYear(doe, yoe) == doe - (365 * yoe + (yoe \div 4) - (yoe \div 100))

MonthFromMarch(mp) == IF mp < 10 THEN mp + 3 ELSE mp - 9

CivilDate(era, yoe, doy, mp) ==
    [year |-> yoe + era * 400 + (IF mp < 10 THEN 0 ELSE 1),
     month |-> MonthFromMarch(mp),
     day |-> doy - ((153 * mp + 2) \div 5) + 1]

CivilOfEra(era, doe, yoe) ==
    CivilDate(era, yoe, DayOfYear(doe, yoe), (5 * DayOfYear(doe, yoe) + 2) \div 153)

CivilFromDays(days) ==
    CivilOfEra((days + 719468) \div 146097,
               (days + 719468) % 146097,
               YearOfEra((days + 719468) % 146097))

ZeroFill2(n) == IF n < 10 THEN "0" \o ToString(n) ELSE ToString(n)

ZeroFill4(n) ==
    IF n < 10 THEN "000" \o ToString(n)
    ELSE IF n < 100 THEN "00" \o ToString(n)
    ELSE IF n < 1000 THEN "0" \o ToString(n)
    ELSE ToString(n)

StartsAt(s, i, tok) ==
    /\ i + Len(tok) - 1 <= Len(s)
    /\ SubSeq(s, i, i + Len(tok) - 1) = tok

\* the formatting token that starts at position i (longest first), else one
\* literal character
TokenAt(pat, i) ==
    IF StartsAt(pat, i, "YYYY") THEN "YYYY"
    ELSE IF StartsAt(pat, i, "YY") THEN "YY"
    ELSE IF StartsAt(pat, i, "MM") THEN "MM"
    ELSE IF StartsAt(pat, i, "DD") THEN "DD"
    ELSE IF StartsAt(pat, i, "M") THEN "M"
    ELSE IF StartsAt(pat, i, "D") THEN "D"
    ELSE SubSeq(pat, i, i)

ExpandToken(tok, date) ==
    IF tok = "YYYY" THEN ZeroFill4(date.year)
    ELSE IF tok = "YY" THEN ZeroFill2(date.year % 100)
    ELSE IF tok = "MM" THEN ZeroFill2(date.month)
    ELSE IF tok = "M" THEN ToString(date.month)
    ELSE IF tok = "DD" THEN ZeroFill2(date.day)
    ELSE IF tok = "D" THEN ToString(date.day)
    ELSE tok

RECURSIVE FormatFrom(_, _, _)
FormatFrom(pat, i, date) ==
    IF i > Len(pat) THEN ""
    ELSE LET tok == TokenAt(pat, i)
         IN  ExpandToken(tok, date) \o FormatFrom(pat, i + Len(tok), date)

MomentFormat(timestamp, pattern) == FormatFrom(pattern, 1, CivilFromDays(timestamp))

\* FileDatesPlugin.formatDate
formatDate(cfg, timestamp) == MomentFormat(timestamp, cfg.dateFormat)

(* ------------------------------------------------------------------ *)
(* element.style.fontSize = value  (CSSOM declaration setter)          *)
(* ------------------------------------------------------------------ *)
Invalid == "<invalid>"

Digits == {"0", "1", "2", "3", "4", "5", "6", "7", "8", "9"}
CssUnits == {"px", "em", "rem", "pt", "%"}
CssKeywords == {"small", "medium", "large", "smaller", "larger", "inherit"}

LowerChar(ch) ==
    IF ch = "P" THEN "p" ELSE IF ch = "X" THEN "x" ELSE IF ch = "E" THEN "e"
    ELSE IF ch = "M" THEN "m" ELSE IF ch = "R" THEN "r" ELSE IF ch = "T" THEN "t"
    ELSE ch

RECURSIVE Lower(_)
Lower(s) == IF Len(s) = 0 THEN "" ELSE LowerChar(SubSeq(s, 1, 1)) \o Lower(SubSeq(s, 2, Len(s)))

RECURSIVE DigitPrefixLen(_)
DigitPrefixLen(s) ==
    IF Len(s) = 0 \/ SubSeq(s, 1, 1) \notin Digits THEN 0
    ELSE 1 + DigitPrefixLen(SubSeq(s, 2, Len(s)))

\* the serialised declaration value, or Invalid when the value does not parse
\* as a font-size (the declaration is then dropped)
ParseFontSize(value) ==
    LET n == DigitPrefixLen(value)
        unit == Lower(SubSeq(value, n + 1, Len(value)))
    IN  IF value = "" THEN ""
        ELSE IF n = 0 THEN (IF Lower(value) \in CssKeywords THEN Lower(value) ELSE Invalid)
        ELSE IF unit \in CssUnits THEN SubSeq(value, 1, n) \o unit
        ELSE IF unit = "" /\ SubSeq(value, 1, n) = "0" THEN "0px"
        ELSE Invalid

SetFontSize(style, value) ==
    IF ParseFontSize(value) = Invalid THEN style
    ELSE [style EXCEPT !.fontSize = ParseFontSize(value)]

(* ------------------------------------------------------------------ *)
(* The view tree                                                       *)
(* ------------------------------------------------------------------ *)
\* view.containerEl holds a sequence of containers, a container a sequence
\* of child elements; an element is [cls, text, style].  For the title the
\* style is its computed style, for the overlay its inline style.
TitleCls == "inline-title"
OverlayCls == "file-dates-container"
OtherCls == "other"

EmptyStyle ==
    [fontSize |-> "", fontStyle |-> "", textAlign |-> "", paddingLeft |-> "",
     paddingRight |-> "", marginLeft |-> "", marginRight |-> ""]

TitleStyleA ==
    [fontSize |-> "", fontStyle |-> "", textAlign |-> "start", paddingLeft |-> "0px",
     paddingRight |-> "1px", marginLeft |-> "2px", marginRight |-> "3px"]

TitleStyleB ==
    [fontSize |-> "", fontStyle |-> "", textAlign |-> "center", paddingLeft |-> "10px",
     paddingRight |-> "11px", marginLeft |-> "12px", marginRight |-> "13px"]

TitleStyles == {TitleStyleA, TitleStyleB}

TitleEl(st) == [cls |-> TitleCls, text |-> "", style |-> st]
OtherEl == [cls |-> OtherCls, text |-> "", style |-> EmptyStyle]

\* document.createElement('div') with classList.add('file-dates-container')
NewDateContainer == [cls |-> OverlayCls, text |-> "", style |-> EmptyStyle]

\* the view trees the host builds: one markdown container with a title, a
\* source and a preview container with a title each, a title outside any
\* markdown container, and a view without a title
LayoutSingle == << [md |-> TRUE, kids |-> <<OtherEl, TitleEl(TitleStyleA)>>] >>
LayoutDouble ==
    << [md |-> TRUE, kids |-> <<TitleEl(TitleStyleA)>>],
       [md |-> TRUE, kids |-> <<TitleEl(TitleStyleB)>>] >>
LayoutPlain == << [md |-> FALSE, kids |-> <<TitleEl(TitleStyleA)>>] >>
LayoutNoTitle == << [md |-> FALSE, kids |-> <<OtherEl>>] >>
Layouts == {LayoutSingle, LayoutDouble, LayoutPlain, LayoutNoTitle}

Min(S) == CHOOSE m \in S : \A n \in S : m <= n

NoPos == <<0, 0>>

\* positions <<c, k>> of the elements of class cls below a view root
Positions(tree, cls) ==
    UNION { { <<c, k>> : k \in {j \in 1..Len(tree[c].kids) : tree[c].kids[j].cls = cls} } :
            c \in 1..Len(tree) }

\* root.querySelector('.' + cls): the first match in document order
QuerySelector(tree, cls) ==
    LET ps == Positions(tree, cls)
    IN  IF ps = {} THEN NoPos
        ELSE LET c == Min({p[1] : p \in ps})
             IN  <<c, Min({p[2] : p \in {q \in ps : q[1] = c}})>>

\* el.closest('.markdown-source-view, .markdown-preview-view'); 0 when none
Closest(tree, pos) ==
    IF pos = NoPos THEN 0
    ELSE IF tree[pos[1]].md THEN pos[1] ELSE 0

\* contentContainer.querySelector('.inline-title')
ContainerQuery(tree, c, cls) ==
    LET ks == {k \in 1..Len(tree[c].kids) : tree[c].kids[k].cls = cls}
    IN  IF ks = {} THEN NoPos ELSE <<c, Min(ks)>>

\* parent.insertBefore(el, ref) where ref is the element at pos
InsertBefore(tree, pos, el) ==
    LET ks == tree[pos[1]].kids
    IN  [tree EXCEPT ![pos[1]].kids =
            SubSeq(ks, 1, pos[2] - 1) \o <<el>> \o SubSeq(ks, pos[2], Len(ks))]

ElementAt(tree, pos) == tree[pos[1]].kids[pos[2]]

(* ------------------------------------------------------------------ *)
(* State                                                               *)
(* ------------------------------------------------------------------ *)
VARIABLES
    settings,     \* this.settings, the in-memory Configuration
    stored,       \* the record the host holds in data.json (DOMAIN {} = nothing stored)
    loadPc,       \* position of onload: "start", "awaitLoad", "done"
    unloaded,     \* onunload has run
    registered,   \* the four event subscriptions are live
    tabAdded,     \* the settings tab is shown by the host
    timer,        \* the setTimeout of onload: "none", "pending", "fired"
    handlers,     \* the change handler started by the i-th edit
    activeLeaf,   \* app.workspace.activeLeaf
    activeFile,   \* app.workspace.getActiveFile()
    stat,         \* file.stat of every file
    dom,          \* view.containerEl of every view
    edits,        \* number of settings edit events so far
    triggers,     \* number of file-open / layout-change / resize events delivered
    modifies,     \* number of vault modify events delivered
    hostSteps,    \* number of host steps so far
    calls,        \* executions of updateActiveDates, by the kind of caller
    last          \* what the last step did

vars == <<settings, stored, loadPc, unloaded, registered, tabAdded, timer, handlers,
          activeLeaf, activeFile, stat, dom, edits, triggers, modifies, hostSteps,
          calls, last>>

lifeVars == <<loadPc, unloaded, registered, tabAdded, timer>>
hostVars == <<activeLeaf, activeFile, stat>>
counterVars == <<edits, triggers, modifies, hostSteps>>

(* ------------------------------------------------------------------ *)
(* FileDatesPlugin.updateActiveDates                                   *)
(* ------------------------------------------------------------------ *)
Bullet == "<U+2022>"
Separator == " " \o Bullet \o " "

\* DateText with the two dates exchanged
DateText_swapped(cfg, st) ==
    (IF cfg.showCreated THEN "Created: " \o formatDate(cfg, st.mtime) ELSE "")
    \o (IF cfg.showCreated /\ cfg.showModified THEN Separator ELSE "")
    \o (IF cfg.showModified THEN "Modified: " \o formatDate(cfg, st.ctime) ELSE "")

\* DateText with the separator after every created segment
DateText_separator(cfg, st) ==
    (IF cfg.showCreated THEN "Created: " \o formatDate(cfg, st.ctime) ELSE "")
    \o (IF cfg.showCreated THEN Separator ELSE "")
    \o (IF cfg.showModified THEN "Modified: " \o formatDate(cfg, st.mtime) ELSE "")

\* lines 86-101: dateText, built from '' by the three conditional appends
DateText(cfg, st) ==
    (IF cfg.showCreated THEN "Created: " \o formatDate(cfg, st.ctime) ELSE "")
    \o (IF cfg.showCreated /\ cfg.showModified THEN Separator ELSE "")
    \o (IF cfg.showModified THEN "Modified: " \o formatDate(cfg, st.mtime) ELSE "")

\* lines 105-111: font size and font style from the settings
ApplyFont(style, cfg) ==
    [SetFontSize(style, cfg.fontSize) EXCEPT
        !.fontStyle = IF cfg.italic THEN "italic" ELSE "normal"]

\* ApplyAlignment without the last assignment (marginRight)
ApplyAlignment_noMarginRight(style, titleStyle) ==
    [style EXCEPT !.textAlign = titleStyle.textAlign,
                  !.paddingLeft = titleStyle.paddingLeft,
                  !.paddingRight = titleStyle.paddingRight,
                  !.marginLeft = titleStyle.marginLeft]

\* lines 113-120: alignment copied from the computed style of the title
ApplyAlignment(style, titleStyle) ==
    [style EXCEPT !.textAlign = titleStyle.textAlign,
                  !.paddingLeft = titleStyle.paddingLeft,
                  !.paddingRight = titleStyle.paddingRight,
                  !.marginLeft = titleStyle.marginLeft,
                  !.marginRight = titleStyle.marginRight]

\* SetText appending to the text there is
SetText_append(el, text) == [el EXCEPT !.text = @ \o text]

\* SetText leaving the element alone when there is nothing to show
SetText_skipEmpty(el, text) == IF text = "" THEN el ELSE [el EXCEPT !.text = text]

\* line 103: dateContainer.textContent = dateText
SetText(el, text) == [el EXCEPT !.text = text]

\* FindDateContainer that never finds the element
FindDateContainer_none(tree) == NoPos

\* line 78: view.containerEl.querySelector('.file-dates-container')
FindDateContainer(tree) == QuerySelector(tree, OverlayCls)

\* ResolveTitle without the closest() test
ResolveTitle_anyTitle(tree) == QuerySelector(tree, TitleCls)

\* lines 70-75: the title anchor of a view, NoPos when a precondition fails
ResolveTitle(tree) ==
    LET first == QuerySelector(tree, TitleCls)
        contentContainer == Closest(tree, first)
    IN  IF contentContainer = 0 THEN NoPos
        ELSE ContainerQuery(tree, contentContainer, TitleCls)

NoRefresh(view) ==
    [met |-> FALSE, view |-> view, created |-> FALSE, tree |-> <<>>,
     overlay |-> NoPos, anchor |-> NoPos, before |-> <<>>]

\* lines 86-120 on the element dateContainer
Render(el, titleStyle, cfg, st) ==
    [SetText(el, DateText(cfg, st)) EXCEPT
        !.style = ApplyAlignment(ApplyFont(@, cfg), titleStyle)]

\* Rendered writing the text into the title element as well
Rendered_touchTitle(view, tree, pos, anchor, create, cfg, st) ==
    [met |-> TRUE, view |-> view, created |-> create,
     tree |-> [tree EXCEPT ![pos[1]].kids[pos[2]] =
                  Render(@, ElementAt(tree, anchor).style, cfg, st),
                           ![anchor[1]].kids[anchor[2]].text = DateText(cfg, st)],
     overlay |-> pos, anchor |-> anchor,
     before |-> IF create THEN <<>> ELSE <<ElementAt(tree, pos)>>]

\* lines 86-120 with dateContainer at pos and the title at anchor
Rendered(view, tree, pos, anchor, create, cfg, st) ==
    [met |-> TRUE, view |-> view, created |-> create,
     tree |-> [tree EXCEPT ![pos[1]].kids[pos[2]] =
                  Render(@, ElementAt(tree, anchor).style, cfg, st)],
     overlay |-> pos, anchor |-> anchor,
     before |-> IF create THEN <<>> ELSE <<ElementAt(tree, pos)>>]

\* lines 77-84: get or create the date container; a new one goes before the
\* title, in its parent, and the title moves one place down
GetOrCreate(view, tree, inlineTitleEl, found, cfg, st) ==
    IF found = NoPos
    THEN Rendered(view, InsertBefore(tree, inlineTitleEl, NewDateContainer), inlineTitleEl,
                  <<inlineTitleEl[1], inlineTitleEl[2] + 1>>, TRUE, cfg, st)
    ELSE Rendered(view, tree, found, inlineTitleEl, FALSE, cfg, st)

\* lines 69-75: the title preconditions
WithTitle(view, tree, inlineTitleEl, cfg, st) ==
    IF inlineTitleEl = NoPos THEN NoRefresh(view)
    ELSE GetOrCreate(view, tree, inlineTitleEl, FindDateContainer(tree), cfg, st)

\* the outcome of one execution: whether the preconditions were met, the
\* view, the new tree of that view, whether an element was created, where the
\* overlay and the title anchor are afterwards and the overlay element found
\* before the call
UpdateOutcome(leaf, file, cfg, stats, trees) ==
    IF leaf = None THEN NoRefresh(None)
    ELSE IF LeafView(leaf) = None THEN NoRefresh(None)
    ELSE IF file = None THEN NoRefresh(LeafView(leaf))
    ELSE WithTitle(LeafView(leaf), trees[LeafView(leaf)],
                   ResolveTitle(trees[LeafView(leaf)]), cfg, stats[file])

\* updateActiveDates() called by `op`, a caller of kind `kind`
updateActiveDates(op, kind, arg) ==
    \E r \in {UpdateOutcome(activeLeaf, activeFile, settings, stat, dom)} :
        /\ dom' = IF r.met THEN [dom EXCEPT ![r.view] = r.tree] ELSE dom
        /\ calls' = [calls EXCEPT ![kind] = @ + 1]
        /\ last' = [op |-> op, arg |-> arg, calls |-> 1, again |-> last.calls = 1,
                    met |-> r.met, view |-> r.view, created |-> r.created,
                    overlay |-> r.overlay, anchor |-> r.anchor, before |-> r.before]

\* the record of a step that does not call updateActiveDates
Quiet(op, arg) ==
    [op |-> op, arg |-> arg, calls |-> 0, again |-> FALSE, met |-> FALSE, view |-> None,
     created |-> FALSE, overlay |-> NoPos, anchor |-> NoPos, before |-> <<>>]

NoCall(op, arg) ==
    /\ last' = Quiet(op, arg)
    /\ UNCHANGED <<dom, calls>>

(* ------------------------------------------------------------------ *)
(* Life cycle: onload, loadSettings, onunload                          *)
(* ------------------------------------------------------------------ *)
NoData == [f \in {} |-> TRUE]

\* what data.json can hold when the plugin is constructed
StoredChoices ==
    { NoData,
      [showCreated |-> FALSE, showModified |-> FALSE],
      [fontSize |-> "14PX", italic |-> FALSE, showCreated |-> TRUE,
       showModified |-> FALSE, dateFormat |-> "D/M/YY"] }

\* Assign with the sources in the other order: the defaults win
Assign_baseWins(base, data) ==
    [f \in DOMAIN base \cup DOMAIN data |-> IF f \in DOMAIN base THEN base[f] ELSE data[f]]

\* Object.assign({}, this.settings, data)
Assign(base, data) ==
    [f \in DOMAIN base \cup DOMAIN data |-> IF f \in DOMAIN data THEN data[f] ELSE base[f]]

FreeHandler ==
    [pc |-> "free", field |-> None, value |-> None, snap |-> DefaultSettings, refreshes |-> 0]

Init ==
    /\ settings = DefaultSettings
    /\ stored \in StoredChoices
    /\ loadPc = "start"
    /\ unloaded = FALSE
    /\ registered = FALSE
    /\ tabAdded = FALSE
    /\ timer = "none"
    /\ handlers = [i \in 1..MaxSteps |-> FreeHandler]
    /\ activeLeaf = "leaf1"
    /\ activeFile = "a.md"
    /\ stat = [f \in Files |-> [ctime |-> 19675, mtime |-> 19676]]
    /\ dom = [v \in Views |-> IF v = "v1" THEN LayoutSingle ELSE LayoutDouble]
    /\ edits = 0
    /\ triggers = 0
    /\ modifies = 0
    /\ hostSteps = 0
    /\ calls = [trigger |-> 0, modify |-> 0, settings |-> 0]
    /\ last = Quiet("init", None)

\* OnloadStart with the setTimeout moved before the await
OnloadStart_timerFirst ==
    /\ loadPc = "start"
    /\ ~unloaded
    /\ loadPc' = "awaitLoad"
    /\ timer' = "pending"
    /\ NoCall("onload", None)
    /\ UNCHANGED <<settings, stored, unloaded, registered, tabAdded, handlers>>
    /\ UNCHANGED <<hostVars, counterVars>>

\* onload up to `await this.loadSettings()`
OnloadStart ==
    /\ loadPc = "start"
    /\ ~unloaded
    /\ loadPc' = "awaitLoad"
    /\ NoCall("onload", None)
    /\ UNCHANGED <<settings, stored, unloaded, registered, tabAdded, timer, handlers>>
    /\ UNCHANGED <<hostVars, counterVars>>

\* loadData() resolves: loadSettings merges, then onload registers the four
\* events, adds the settings tab and starts the timer
OnloadResume ==
    /\ loadPc = "awaitLoad"
    /\ settings' = Assign(settings, stored)
    /\ loadPc' = "done"
    /\ registered' = TRUE
    /\ tabAdded' = TRUE
    /\ timer' = "pending"
    /\ NoCall("loaded", None)
    /\ UNCHANGED <<stored, unloaded, handlers>>
    /\ UNCHANGED <<hostVars, counterVars>>

\* onunload: the host drops what registerEvent / registerDomEvent /
\* addSettingTab registered so far; the timer of onload is not cleared
OnUnload ==
    /\ loadPc # "start"
    /\ ~unloaded
    /\ unloaded' = TRUE
    /\ registered' = FALSE
    /\ tabAdded' = FALSE
    /\ NoCall("onunload", None)
    /\ UNCHANGED <<settings, stored, loadPc, timer, handlers>>
    /\ UNCHANGED <<hostVars, counterVars>>

\* the callback of setTimeout(..., 500)
TimerFire ==
    /\ timer = "pending"
    /\ timer' = "fired"
    /\ updateActiveDates("timer", "trigger", None)
    /\ UNCHANGED <<settings, stored, loadPc, unloaded, registered, tabAdded, handlers>>
    /\ UNCHANGED <<hostVars, counterVars>>

(* ------------------------------------------------------------------ *)
(* The four event subscriptions of onload                              *)
(* ------------------------------------------------------------------ *)
Budget == edits + triggers + modifies + hostSteps < MaxSteps

\* workspace.on('file-open', ...)
OnFileOpen ==
    /\ registered
    /\ Budget
    /\ triggers' = triggers + 1
    /\ updateActiveDates("file-open", "trigger", None)
    /\ UNCHANGED <<settings, stored, lifeVars, handlers, hostVars, edits, modifies, hostSteps>>

\* workspace.on('layout-change', ...)
OnLayoutChange ==
    /\ registered
    /\ Budget
    /\ triggers' = triggers + 1
    /\ updateActiveDates("layout-change", "trigger", None)
    /\ UNCHANGED <<settings, stored, lifeVars, handlers, hostVars, edits, modifies, hostSteps>>

\* registerDomEvent(window, 'resize', ...)
OnResize ==
    /\ registered
    /\ Budget
    /\ triggers' = triggers + 1
    /\ updateActiveDates("resize", "trigger", None)
    /\ UNCHANGED <<settings, stored, lifeVars, handlers, hostVars, edits, modifies, hostSteps>>

\* the host emits file-open, layout-change, modify or resize while none of
\* the subscriptions of lines 19-45 is live: no callback of the plugin runs
EventWithoutSubscription ==
    /\ ~registered
    /\ Budget
    /\ hostSteps' = hostSteps + 1
    /\ NoCall("dropped", None)
    /\ UNCHANGED <<settings, stored, lifeVars, handlers, hostVars, edits, triggers, modifies>>

\* ModifyFilter without the comparison of the paths
ModifyFilter_anyFile(active, file) == active # None /\ file # None

\* line 36: activeFile && file && activeFile.path === file.path
ModifyFilter(active, file) == active # None /\ file # None /\ active = file

\* vault.on('modify', (file) => ...), file possibly absent
OnModify(file) ==
    /\ registered
    /\ Budget
    /\ modifies' = modifies + 1
    /\ IF ModifyFilter(activeFile, file)
       THEN updateActiveDates("modify", "modify", file)
       ELSE NoCall("modify", file)
    /\ UNCHANGED <<settings, stored, lifeVars, handlers, hostVars, edits, triggers, hostSteps>>

(* ------------------------------------------------------------------ *)
(* FileDatesSettingTab.display: the five change handlers               *)
(* ------------------------------------------------------------------ *)
\* ChangeHandlerStart calling updateActiveDates before the await
ChangeHandlerStart_refreshFirst(field, value) ==
    /\ tabAdded
    /\ Budget
    /\ value # settings[field]
    /\ edits' = edits + 1
    /\ settings' = [settings EXCEPT ![field] = value]
    /\ handlers' = [handlers EXCEPT ![edits + 1] =
                        [pc |-> "saving", field |-> field, value |-> value,
                         snap |-> settings', refreshes |-> 1]]
    /\ \E r \in {UpdateOutcome(activeLeaf, activeFile, settings', stat, dom)} :
           /\ dom' = IF r.met THEN [dom EXCEPT ![r.view] = r.tree] ELSE dom
           /\ calls' = [calls EXCEPT !.settings = @ + 1]
           /\ last' = [Quiet("settings", edits + 1) EXCEPT !.calls = 1, !.met = r.met,
                         !.view = r.view, !.created = r.created, !.overlay = r.overlay,
                         !.anchor = r.anchor, !.before = r.before]
    /\ UNCHANGED <<stored, lifeVars, hostVars, triggers, modifies, hostSteps>>

\* a handler up to `await this.plugin.saveSettings()`: the field is written,
\* saveData is called with the settings as they are now
ChangeHandlerStart(field, value) ==
    /\ tabAdded
    /\ Budget
    /\ value # settings[field]
    /\ edits' = edits + 1
    /\ settings' = [settings EXCEPT ![field] = value]
    /\ handlers' = [handlers EXCEPT ![edits + 1] =
                        [pc |-> "saving", field |-> field, value |-> value,
                         snap |-> settings', refreshes |-> 0]]
    /\ NoCall("change", field)
    /\ UNCHANGED <<stored, lifeVars, hostVars, triggers, modifies, hostSteps>>

OnChangeFontSize == \E value \in FontSizes : ChangeHandlerStart("fontSize", value)
OnChangeItalic == \E value \in BOOLEAN : ChangeHandlerStart("italic", value)
OnChangeShowCreated == \E value \in BOOLEAN : ChangeHandlerStart("showCreated", value)
OnChangeShowModified == \E value \in BOOLEAN : ChangeHandlerStart("showModified", value)
OnChangeDateFormat == \E value \in DateFormats : ChangeHandlerStart("dateFormat", value)

\* the host finishes the write of saveData: data.json holds the settings as
\* they were serialised when saveData was called
SaveDataResolves(i) ==
    /\ handlers[i].pc = "saving"
    /\ stored' = handlers[i].snap
    /\ handlers' = [handlers EXCEPT ![i].pc = "written"]
    /\ NoCall("saveData", i)
    /\ UNCHANGED <<settings, lifeVars, hostVars, counterVars>>

\* the host fails the write: data.json is left as it was
SaveDataRejects(i) ==
    /\ handlers[i].pc = "saving"
    /\ handlers' = [handlers EXCEPT ![i].pc = "rejected"]
    /\ NoCall("saveData", i)
    /\ UNCHANGED <<settings, stored, lifeVars, hostVars, counterVars>>

\* the handler continues after the await: updateActiveDates()
ChangeHandlerResume(i) ==
    /\ handlers[i].pc = "written"
    /\ handlers' = [handlers EXCEPT ![i].pc = "done", ![i].refreshes = @ + 1]
    /\ updateActiveDates("settings", "settings", i)
    /\ UNCHANGED <<settings, stored, lifeVars, hostVars, counterVars>>

\* ChangeHandlerThrows with the refresh in a finally block
ChangeHandlerThrows_refreshes(i) ==
    /\ handlers[i].pc = "rejected"
    /\ handlers' = [handlers EXCEPT ![i].pc = "threw", ![i].refreshes = @ + 1]
    /\ updateActiveDates("settings", "settings", i)
    /\ UNCHANGED <<settings, stored, lifeVars, hostVars, counterVars>>

\* the await throws: the handler's promise rejects, nothing else runs
ChangeHandlerThrows(i) ==
    /\ handlers[i].pc = "rejected"
    /\ handlers' = [handlers EXCEPT ![i].pc = "threw"]
    /\ NoCall("threw", i)
    /\ UNCHANGED <<settings, stored, lifeVars, hostVars, counterVars>>

(* ------------------------------------------------------------------ *)
(* The host                                                            *)
(* ------------------------------------------------------------------ *)
HostSetActiveLeaf(l) ==
    /\ Budget
    /\ l # activeLeaf
    /\ activeLeaf' = l
    /\ hostSteps' = hostSteps + 1
    /\ NoCall("host", None)
    /\ UNCHANGED <<settings, stored, lifeVars, handlers, activeFile, stat, edits, triggers, modifies>>

HostSetActiveFile(f) ==
    /\ Budget
    /\ f # activeFile
    /\ activeFile' = f
    /\ hostSteps' = hostSteps + 1
    /\ NoCall("host", None)
    /\ UNCHANGED <<settings, stored, lifeVars, handlers, activeLeaf, stat, edits, triggers, modifies>>

\* a file is written: its modification time changes
HostTouchFile(f, t) ==
    /\ Budget
    /\ t # stat[f].mtime
    /\ stat' = [stat EXCEPT ![f].mtime = t]
    /\ hostSteps' = hostSteps + 1
    /\ NoCall("host", None)
    /\ UNCHANGED <<settings, stored, lifeVars, handlers, activeLeaf, activeFile, edits, triggers, modifies>>

HostDomStep(v, tree) ==
    /\ Budget
    /\ tree # dom[v]
    /\ hostSteps' = hostSteps + 1
    /\ last' = Quiet("host", None)
    /\ dom' = [dom EXCEPT ![v] = tree]
    /\ UNCHANGED <<settings, stored, lifeVars, handlers, hostVars, edits, triggers, modifies, calls>>

\* the theme or the width changes the computed style of a title
HostRestyleTitle(v, pos, st) ==
    /\ pos \in Positions(dom[v], TitleCls)
    /\ HostDomStep(v, [dom[v] EXCEPT ![pos[1]].kids[pos[2]].style = st])

\* the host renders the title of a container anew, as its first child
HostReplaceTitle(v, pos) ==
    /\ pos \in Positions(dom[v], TitleCls)
    /\ LET ks == dom[v][pos[1]].kids
           rest == SubSeq(ks, 1, pos[2] - 1) \o SubSeq(ks, pos[2] + 1, Len(ks))
       IN  HostDomStep(v, [dom[v] EXCEPT ![pos[1]].kids = <<TitleEl(ks[pos[2]].style)>> \o rest])

\* the host tears the view down and builds another; the overlay goes with it
HostRebuildView(v, layout) ==
    HostDomStep(v, layout)

Next ==
    \/ OnloadStart
    \/ OnloadResume
    \/ OnUnload
    \/ TimerFire
    \/ OnFileOpen
    \/ OnLayoutChange
    \/ OnResize
    \/ \E file \in Files \cup {None} : OnModify(file)
    \/ EventWithoutSubscription
    \/ OnChangeFontSize
    \/ OnChangeItalic
    \/ OnChangeShowCreated
    \/ OnChangeShowModified
    \/ OnChangeDateFormat
    \/ \E i \in 1..MaxSteps : SaveDataResolves(i)
    \/ \E i \in 1..MaxSteps : SaveDataRejects(i)
    \/ \E i \in 1..MaxSteps : ChangeHandlerResume(i)
    \/ \E i \in 1..MaxSteps : ChangeHandlerThrows(i)
    \/ \E l \in Leaves \cup {None} : HostSetActiveLeaf(l)
    \/ \E f \in Files \cup {None} : HostSetActiveFile(f)
    \/ \E f \in Files, t \in Times : HostTouchFile(f, t)
    \/ \E v \in Views, c \in 1..2, k \in 1..3, st \in TitleStyles : HostRestyleTitle(v, <<c, k>>, st)
    \/ \E v \in Views, c \in 1..2, k \in 1..3 : HostReplaceTitle(v, <<c, k>>)
    \/ \E v \in Views, layout \in Layouts : HostRebuildView(v, layout)

Spec == Init /\ [][Next]_vars
(* ------------------------------------------------------------------ *)
(* Properties                                                          *)
(* ------------------------------------------------------------------ *)
Overlays(v) == Positions(dom[v], OverlayCls)

ActiveView == IF activeLeaf = None THEN None ELSE LeafView(activeLeaf)

\* a title inside a markdown source or preview container
TitleAnchorExists(tree) == \E p \in Positions(tree, TitleCls) : tree[p[1]].md

PreconditionsMet ==
    /\ activeLeaf # None
    /\ ActiveView # None
    /\ activeFile # None
    /\ TitleAnchorExists(dom[ActiveView])

\* the last step executed updateActiveDates with its preconditions met
Refreshed == last.calls = 1 /\ PreconditionsMet

\* the texts and the inline styles of the overlays of the active view
ActiveOverlayText == {ElementAt(dom[ActiveView], p).text : p \in Overlays(ActiveView)}
ActiveOverlayStyle == {ElementAt(dom[ActiveView], p).style : p \in Overlays(ActiveView)}

CreatedSegment == "Created: " \o MomentFormat(stat[activeFile].ctime, settings.dateFormat)
ModifiedSegment == "Modified: " \o MomentFormat(stat[activeFile].mtime, settings.dateFormat)

\* C1: every view holds at most one overlay element, in every reachable state.
C1_NoDuplication == \A v \in Views : Cardinality(Overlays(v)) <= 1

\* a refresh found the overlay of an earlier refresh and reused it
C1_Witness ==
    /\ last.calls = 1 /\ last.met /\ ~last.created
    /\ Cardinality(Overlays(last.view)) = 1

\* C2: of two refreshes one right after the other (nothing they read has
\* changed in between) the second leaves the whole view tree as the first
\* left it and creates no element.
C2_Idempotent ==
    [][(last.calls = 1 /\ last'.calls = 1) => (dom' = dom /\ ~last'.created)]_vars

\* a second refresh in a row ran with its preconditions met
C2_Witness ==
    /\ last.calls = 1 /\ last.again /\ last.met
    /\ last.before # <<>>
    /\ last.before[1].text # ""

\* C3: with showCreated and showModified both set, a refresh whose
\* preconditions are met leaves the overlay text equal to
\* "Created: " f(ctime) " <bullet> " "Modified: " f(mtime).
C3_BothSegments ==
    (Refreshed /\ settings.showCreated /\ settings.showModified)
        => ActiveOverlayText = {CreatedSegment \o Separator \o ModifiedSegment}

\* such a refresh replaced a different text
C3_Witness ==
    /\ Refreshed /\ settings.showCreated /\ settings.showModified
    /\ last.before # <<>>
    /\ last.before[1].text \notin {"", CreatedSegment \o Separator \o ModifiedSegment}

\* C4: with exactly one of showCreated / showModified set, a refresh whose
\* preconditions are met leaves the overlay text equal to that one labeled
\* segment and nothing else (no separator before or after it).
C4_OneSegment ==
    (Refreshed /\ settings.showCreated # settings.showModified)
        => ActiveOverlayText =
                {IF settings.showCreated THEN CreatedSegment ELSE ModifiedSegment}

\* only the modified segment is shown where both segments were shown before
C4_Witness ==
    /\ Refreshed /\ ~settings.showCreated /\ settings.showModified
    /\ last.before # <<>>
    /\ last.before[1].text = CreatedSegment \o Separator \o ModifiedSegment

\* C5: with showCreated and showModified both clear, a refresh whose
\* preconditions are met leaves an overlay in the active view, and its text
\* is empty.
C5_Blank ==
    (Refreshed /\ ~settings.showCreated /\ ~settings.showModified)
        => ActiveOverlayText = {""}

\* the overlay held a text before it was blanked
C5_Witness ==
    /\ Refreshed /\ ~settings.showCreated /\ ~settings.showModified
    /\ last.before # <<>>
    /\ last.before[1].text # ""

\* C6: a refresh with no active leaf, no view, no active document or no
\* title anchor in the active view leaves the view tree of every view as it
\* was.
C6_NoOpWhenUnmet ==
    [][(last'.calls = 1 /\ ~PreconditionsMet) => dom' = dom]_vars

\* such a refresh ran while a view held an overlay with a text
C6_Witness ==
    /\ last.calls = 1 /\ ~PreconditionsMet
    /\ \E v \in Views : \E p \in Overlays(v) : ElementAt(dom[v], p).text # ""

\* C7: a change handler writes the field, then starts the write of the
\* settings as they then are, calls no refresh before its own write has
\* completed, and calls it exactly once when the write has succeeded.
C7_HandlerOrder ==
    [][\A i \in 1..MaxSteps :
        LET h == handlers[i]
            g == handlers'[i]
        IN  /\ (h.pc = "free" /\ g.pc # "free")
                => /\ g.pc = "saving"
                   /\ settings'[g.field] = g.value
                   /\ g.snap = settings'
                   /\ g.refreshes = 0
                   /\ last'.calls = 0
            /\ g.refreshes # h.refreshes
                => /\ h.pc = "written" /\ g.pc = "done"
                   /\ g.refreshes = h.refreshes + 1
                   /\ last'.calls = 1 /\ last'.op = "settings"
            /\ g.refreshes = (IF g.pc = "done" THEN 1 ELSE 0)]_vars

\* a handler has called its refresh while the write of a later edit is pending
C7_Witness ==
    \E i, j \in 1..MaxSteps :
        /\ handlers[i].pc = "done" /\ handlers[i].refreshes = 1
        /\ handlers[j].pc = "saving"
        /\ last.op = "settings"

\* C8: when the refresh of a change handler runs, the settings it reads are
\* the settings the host has stored.
C8_RefreshSeesStored ==
    (last.op = "settings" /\ last.calls = 1) => settings = stored

\* the font size the overlay shows stands for the configured one
FontSizeReflects(style, cfg) == Lower(style.fontSize) = Lower(cfg.fontSize)

ExpectedText ==
    (IF settings.showCreated THEN CreatedSegment ELSE "")
    \o (IF settings.showCreated /\ settings.showModified THEN Separator ELSE "")
    \o (IF settings.showModified THEN ModifiedSegment ELSE "")

TriggerOps == {"file-open", "layout-change", "resize", "timer"}

\* C9: every file-open, layout-change and resize event and the timer call
\* run updateActiveDates once each, and after such a refresh with its
\* preconditions met the overlay text and font styling are those of the
\* settings and timestamps of that moment.
C9_EveryTriggerRefreshes ==
    /\ calls.trigger = triggers + (IF timer = "fired" THEN 1 ELSE 0)
    /\ last.op \in TriggerOps => last.calls = 1
    /\ (last.op \in TriggerOps /\ PreconditionsMet)
        => /\ ActiveOverlayText = {ExpectedText}
           /\ \A st \in ActiveOverlayStyle :
                /\ FontSizeReflects(st, settings)
                /\ st.fontStyle = (IF settings.italic THEN "italic" ELSE "normal")

\* C10: a modify event runs updateActiveDates exactly when there is an
\* active document and the modified file is that document; otherwise the
\* view tree stays as it was.
C10_ModifyFilter ==
    [][last'.op = "modify"
        => /\ last'.calls = 1
                <=> (activeFile # None /\ last'.arg # None /\ last'.arg = activeFile)
           /\ last'.calls = 0 => dom' = dom]_vars

\* a modify event for another file than the active one, with an overlay shown
C10_Witness ==
    /\ last.op = "modify" /\ last.calls = 0
    /\ last.arg # None /\ activeFile # None
    /\ \E v \in Views : Overlays(v) # {}

\* C11: when loadSettings has completed, every field of the settings is the
\* stored value where the stored record has the field and the default
\* otherwise (the defaults exactly when nothing is stored); and loading what
\* a save has written gives back the settings that were saved.
C11_LoadMerge ==
    /\ last.op = "loaded"
        => /\ \A f \in FieldNames :
                settings[f] = (IF f \in DOMAIN stored THEN stored[f] ELSE DefaultSettings[f])
           /\ stored = NoData => settings = DefaultSettings
    /\ \A i \in 1..MaxSteps :
        (handlers[i].pc \in {"written", "done"} /\ stored = handlers[i].snap)
            => \A f \in FieldNames :
                (IF f \in DOMAIN stored THEN stored[f] ELSE DefaultSettings[f])
                    = handlers[i].snap[f]

\* a stored record with some of the fields was merged over the defaults
C11_Witness ==
    /\ last.op = "loaded"
    /\ DOMAIN stored # {} /\ DOMAIN stored # FieldNames
    /\ settings # DefaultSettings
    /\ settings.fontSize = DefaultSettings.fontSize

\* C12: after a refresh whose preconditions are met the font size of the
\* overlay is the string settings.fontSize itself, and its font style is
\* "italic" when settings.italic is set and "normal" when it is not.
C12_StylePassThrough ==
    Refreshed
        => \A st \in ActiveOverlayStyle :
            /\ st.fontSize = settings.fontSize
            /\ st.fontStyle = (IF settings.italic THEN "italic" ELSE "normal")

\* the style of the title anchor resolved by the last refresh
AnchorStyle == ElementAt(dom[last.view], last.anchor).style

\* C13: after a refresh whose preconditions are met the text alignment, the
\* left and right padding and the left and right margin of the overlay are
\* the computed values of the title anchor that refresh resolved.
C13_AlignmentMirrors ==
    (Refreshed /\ last.met)
        => \A st \in ActiveOverlayStyle :
            /\ st.textAlign = AnchorStyle.textAlign
            /\ st.paddingLeft = AnchorStyle.paddingLeft
            /\ st.paddingRight = AnchorStyle.paddingRight
            /\ st.marginLeft = AnchorStyle.marginLeft
            /\ st.marginRight = AnchorStyle.marginRight

\* a refresh replaced the alignment taken from an earlier style of the title
C13_Witness ==
    /\ Refreshed /\ last.met
    /\ last.before # <<>>
    /\ last.before[1].style.textAlign \notin {"", AnchorStyle.textAlign}
    /\ last.before[1].style.marginRight \notin {"", AnchorStyle.marginRight}

\* C14: when the write of a change handler fails, nothing is rolled back in
\* the settings and nothing is stored; the handler never starts the write
\* again, never calls updateActiveDates and ends by throwing; and a refresh
\* of any event after that shows the text of the settings in memory.
C14_FailureUnhandled ==
    [][/\ \A i \in 1..MaxSteps :
            LET h == handlers[i]
                g == handlers'[i]
            IN  /\ (h.pc = "saving" /\ g.pc = "rejected")
                    => (settings' = settings /\ stored' = stored /\ last'.calls = 0)
                /\ h.pc = "rejected"
                    => /\ g.pc \in {"rejected", "threw"}
                       /\ g.pc = "threw" => (settings' = settings /\ stored' = stored
                                               /\ last'.calls = 0)
                /\ h.pc = "threw" => g = h
                /\ g.pc \in {"rejected", "threw"} => g.refreshes = 0
       /\ (last'.op \in TriggerOps \cup {"modify"} /\ last'.calls = 1 /\ last'.met)
            => {ElementAt(dom'[last'.view], p).text : p \in Positions(dom'[last'.view], OverlayCls)}
                    = {DateText(settings', stat'[activeFile'])}]_vars

\* a handler has thrown, its edit is in memory and not in data.json, and the
\* refresh of a later event shows the edited value
C14_Witness ==
    \E i \in 1..MaxSteps :
        /\ handlers[i].pc = "threw"
        /\ handlers[i].field \in {"showCreated", "showModified", "dateFormat"}
        /\ settings[handlers[i].field] = handlers[i].value
        /\ Assign(DefaultSettings, stored)[handlers[i].field] # handlers[i].value
        /\ last.op \in TriggerOps /\ Refreshed
        /\ ActiveOverlayText = {ExpectedText}
        /\ ActiveOverlayText # {DateText(Assign(DefaultSettings, stored), stat[activeFile])}

\* C15: when every change handler that was started has finished and every
\* write has succeeded, data.json holds the settings that are in memory.
C15_EditsDurable ==
    (/\ \E i \in 1..MaxSteps : handlers[i].pc = "done"
     /\ \A i \in 1..MaxSteps : handlers[i].pc \in {"free", "done"})
        => stored = settings

IsNotOverlay(el) == el.cls # OverlayCls

\* a view tree without its overlay elements
WithoutOverlays(tree) ==
    [c \in 1..Len(tree) |-> [tree[c] EXCEPT !.kids = SelectSeq(@, IsNotOverlay)]]

\* C16: a step that runs updateActiveDates leaves the settings in memory and
\* data.json as they are and starts no write; it leaves the tree of every
\* view but the active one as it is, and in the active view it changes
\* nothing but the overlay, of which it adds at most one.
C16_RefreshFrame ==
    [][last'.calls = 1
        => /\ settings' = settings
           /\ stored' = stored
           /\ \A i \in 1..MaxSteps : handlers'[i].pc = "saving" => handlers[i].pc = "saving"
           /\ \A v \in Views \ {ActiveView} : dom'[v] = dom[v]
           /\ \A v \in Views :
                /\ WithoutOverlays(dom'[v]) = WithoutOverlays(dom[v])
                /\ Cardinality(Positions(dom'[v], OverlayCls))
                      <= Cardinality(Positions(dom[v], OverlayCls)) + 1
                /\ Positions(dom[v], OverlayCls) # {}
                      => Positions(dom'[v], OverlayCls) = Positions(dom[v], OverlayCls)]_vars

\* a refresh changed the overlay of the active view while another view held
\* an overlay with a text of its own
C16_Witness ==
    /\ Refreshed /\ last.met
    /\ \E v \in Views \ {ActiveView} :
          \E p \in Overlays(v) :
            /\ ElementAt(dom[v], p).text # ""
            /\ ElementAt(dom[v], p).text \notin ActiveOverlayText

\* C17: after a refresh whose preconditions are met the overlay of the
\* active view is the child right before the title anchor that refresh
\* resolved, in the same parent, whether the refresh created the overlay or
\* found it.
C17_OverlayBeforeTitle ==
    (Refreshed /\ last.met)
        => Overlays(last.view) = {<<last.anchor[1], last.anchor[2] - 1>>}

\* C18: once onunload has run, no step executes updateActiveDates.
C18_NoRefreshAfterUnload == unloaded => last.calls = 0

\* C19: until loadSettings has completed there is no subscription, no
\* settings tab and no timer, no updateActiveDates has run and no view holds
\* an overlay; and a refresh that runs before any edit reads the stored
\* values merged over the defaults.
C19_NoRefreshBeforeLoad ==
    /\ loadPc # "done"
        => /\ ~registered /\ ~tabAdded /\ timer = "none"
           /\ last.calls = 0
           /\ calls = [trigger |-> 0, modify |-> 0, settings |-> 0]
           /\ \A v \in Views : Overlays(v) = {}
    /\ (last.calls = 1 /\ edits = 0)
        => \A f \in FieldNames :
            settings[f] = (IF f \in DOMAIN stored THEN stored[f] ELSE DefaultSettings[f])

\* the host emitted an event while the load was pending and data.json held
\* values other than the defaults
C19_Witness ==
    /\ last.op = "dropped"
    /\ loadPc = "awaitLoad"
    /\ stored # NoData
    /\ settings = DefaultSettings
====
